---------------------------- MODULE Spec2Model ----------------------------
(***************************************************************************)
(* A model of the index-construction core of GraphRAG:                     *)
(*   Core/Storage/NetworkXStorage.py   the graph store (networkx graph,    *)
(*                                     GraphML file, community schema)     *)
(*   Core/Chunk/DocChunk.py            the chunk build pass and the batch  *)
(*                                     fetch                               *)
(*   Core/Query/BaseQuery.py           the grouping of community reports   *)
(*                                     for the global map step             *)
(*   Core/Common/Utils.py              mdhash_id and                       *)
(*                                     truncate_list_by_token_size         *)
(*                                                                         *)
(* Strings that the code compares or sorts (node ids) are sequences of     *)
(* character codes, so that Python's string order is computed, not         *)
(* assumed.  A networkx Graph is the record                                *)
(*   [node  : the ids in insertion order         (dict G._node),           *)
(*    data  : id -> attribute bag                (G._node[id]),            *)
(*    adj   : id -> neighbours in insertion order (dict G._adj[id]),       *)
(*    edata : {u, v} -> attribute bag            (the shared datadict)]    *)
(* An attribute bag is a function from the attribute names it holds.       *)
(***************************************************************************)
EXTENDS Integers, Sequences, FiniteSets, TLC

VARIABLES
    _graph,        \* store -> the in-memory networkx graph (self._graph)
    file,          \* store -> what graphml_xml_file holds on disk
    last,          \* store -> the call that ran last on it: [op, force]
    ret,           \* what the latest call returned (None when nothing)
    chunk_mem,     \* ChunkKVStorage, in memory: the chunks in insertion order
    chunk_disk,    \* ChunkKVStorage, persisted: None or the chunks
    pc,            \* where build_chunks stands
    build,         \* the locals of the running build_chunks
    encode_calls,  \* calls of token_model.encode_batch so far
    split_calls,   \* calls of chunk_method so far
    history,       \* the build_chunks calls that returned, oldest first
    indices,       \* the argument of the running get_data_by_indices
    tasks,         \* position -> the state of that position's fetch
    order,         \* the positions in the order their fetches completed
    outcome,       \* what asyncio.gather handed to the caller
    inflight,      \* the storage call the event loop holds as a task
    map_call,      \* the running _map_global_communities: its arguments
    communities_data,  \* its local communities_data: the reports not yet grouped
    community_groups   \* its local community_groups

vars == <<_graph, file, last, ret, chunk_mem, chunk_disk, pc, build,
          encode_calls, split_calls, history, indices, tasks, order, outcome,
          inflight, map_call, communities_data, community_groups>>

graph_vars == <<_graph, file, last, ret>>
chunk_vars == <<chunk_mem, chunk_disk, pc, build, encode_calls, split_calls, history>>
batch_vars == <<indices, tasks, order, outcome, inflight>>
query_vars == <<map_call, communities_data, community_groups>>

None == "None"

\* No storage call is held as a task.
NoTask == [op |-> "none", force |-> FALSE, state |-> "none", start |-> None]

\* No _map_global_communities is running.
NoMapCall == [pc |-> "idle", communities_data |-> <<>>, max_token_size |-> 0]

-----------------------------------------------------------------------------
(* Strings as sequences of character codes; Python's str comparison.       *)

RECURSIVE StrLess(_, _)
StrLess(s, t) ==
    IF s = <<>> THEN t # <<>>
    ELSE IF t = <<>> THEN FALSE
    ELSE IF Head(s) # Head(t) THEN Head(s) < Head(t)
    ELSE StrLess(Tail(s), Tail(t))

StrLeq(s, t) == s = t \/ StrLess(s, t)

\* sorted(seq, key=...), on the sequence of <<key, element>> pairs: Python's sort
\* is stable, so an element goes behind every element whose key is not
\* greater than its own.
RECURSIVE SortedInsert(_, _)
SortedInsert(x, s) ==
    IF s = <<>> THEN <<x>>
    ELSE IF StrLess(x[1], Head(s)[1]) THEN <<x>> \o s
    ELSE <<Head(s)>> \o SortedInsert(x, Tail(s))

RECURSIVE SortKeyed(_)
SortKeyed(s) ==
    IF s = <<>> THEN <<>>
    ELSE SortedInsert(s[Len(s)], SortKeyed(SubSeq(s, 1, Len(s) - 1)))

\* The elements of a sorted sequence of <<key, element>> pairs.
Unkeyed(keyed) == [i \in 1..Len(keyed) |-> keyed[i][2]]

Range(s) == {s[i] : i \in 1..Len(s)}

Contains(s, x) == \E i \in 1..Len(s) : s[i] = x

\* dict.update: the incoming keys win, the others stay.
DictUpdate(old, new) ==
    [k \in (DOMAIN old) \cup (DOMAIN new) |->
        IF k \in DOMAIN new THEN new[k] ELSE old[k]]

EmptyBag == [k \in {} |-> None]

-----------------------------------------------------------------------------
(* networkx.Graph                                                          *)

\* nx.Graph()
NxGraph == [node |-> <<>>, data |-> EmptyBag, adj |-> EmptyBag, edata |-> EmptyBag]

has_node(G, n) == Contains(G.node, n)

EdgeKey(u, v) == {u, v}

has_edge(G, u, v) == EdgeKey(u, v) \in DOMAIN G.edata

\* Graph.add_node(n, **attr): a new node goes to the end of _node with a
\* copy of attr; an existing node keeps its place and its bag is updated.
add_node(G, n, attr) ==
    IF has_node(G, n)
    THEN [G EXCEPT !.data = [m \in DOMAIN G.data |->
                                IF m = n THEN DictUpdate(G.data[m], attr) ELSE G.data[m]]]
    ELSE [G EXCEPT !.node = Append(G.node, n),
                   !.data = [m \in (DOMAIN G.data) \cup {n} |->
                                IF m = n THEN attr ELSE G.data[m]],
                   !.adj  = [m \in (DOMAIN G.adj) \cup {n} |->
                                IF m = n THEN <<>> ELSE G.adj[m]]]

\* Graph.add_edge(u, v, **attr): missing endpoints are added (u before v)
\* with empty bags; the edge's bag is updated; v enters u's neighbours and
\* u enters v's, each at the end unless already there.
add_edge(G, u, v, attr) ==
    LET G1 == IF has_node(G, u) THEN G ELSE add_node(G, u, EmptyBag)
        G2 == IF has_node(G1, v) THEN G1 ELSE add_node(G1, v, EmptyBag)
        e  == EdgeKey(u, v)
        dd == IF e \in DOMAIN G2.edata THEN DictUpdate(G2.edata[e], attr) ELSE attr
        link(nb, b) == IF Contains(nb, b) THEN nb ELSE Append(nb, b)
    IN  [G2 EXCEPT
            !.adj = [m \in DOMAIN G2.adj |->
                        IF m = u THEN link(G2.adj[u], v)
                        ELSE IF m = v THEN link(G2.adj[v], u)
                        ELSE G2.adj[m]],
            !.edata = [k \in (DOMAIN G2.edata) \cup {e} |->
                        IF k = e THEN dd ELSE G2.edata[k]]]

\* G.nodes(data=True): (id, bag) in insertion order.
nodes_data(G) == [i \in 1..Len(G.node) |-> <<G.node[i], G.data[G.node[i]]>>]

\* G.edges(node_id): (node_id, neighbour) for each neighbour, in order.
edges_of(G, n) == [i \in 1..Len(G.adj[n]) |-> <<n, G.adj[n][i]>>]

\* G.edges(data=True) of an undirected graph: for each node in order, each
\* neighbour in order that is not a node already visited.
RECURSIVE EdgesFrom(_, _)
EdgesFrom(G, i) ==
    IF i > Len(G.node) THEN <<>>
    ELSE LET n    == G.node[i]
             seen == {G.node[j] : j \in 1..(i - 1)}
             nb   == SelectSeq(G.adj[n], LAMBDA m : m \notin seen)
         IN  [k \in 1..Len(nb) |-> <<n, nb[k], G.edata[EdgeKey(n, nb[k])]>>]
             \o EdgesFrom(G, i + 1)

edges_data(G) == EdgesFrom(G, 1)

\* add_nodes_from / add_edges_from: one add per element, in order.
RECURSIVE add_nodes_from(_, _)
add_nodes_from(G, ns) ==
    IF ns = <<>> THEN G
    ELSE add_nodes_from(add_node(G, Head(ns)[1], Head(ns)[2]), Tail(ns))

RECURSIVE add_edges_from(_, _)
add_edges_from(G, es) ==
    IF es = <<>> THEN G
    ELSE add_edges_from(add_edge(G, Head(es)[1], Head(es)[2], Head(es)[3]), Tail(es))

-----------------------------------------------------------------------------
(* NetworkXStorage: canonical form, the GraphML file, load and persist     *)

\* f"{source} -> {target}"
_get_edge_key(source, target) == source \o <<32, 45, 62, 32>> \o target

\* An undirected edge with the smaller id first.
_sort_source_target(edge) ==
    IF StrLess(edge[2], edge[1]) THEN <<edge[2], edge[1], edge[3]>> ELSE edge

\* _stabilize_graph of an undirected graph: the nodes sorted by id, then the
\* edges, each with the smaller id first, sorted by their key.
_stabilize_graph(graph) ==
    LET ns    == nodes_data(graph)
        sorted_nodes == Unkeyed(SortKeyed([i \in 1..Len(ns) |-> <<ns[i][1], ns[i]>>]))
        es    == edges_data(graph)
        edges == [i \in 1..Len(es) |-> _sort_source_target(es[i])]
        sorted_edges == Unkeyed(SortKeyed([i \in 1..Len(edges) |->
                            <<_get_edge_key(edges[i][1], edges[i][2]), edges[i]>>]))
    IN  add_edges_from(add_nodes_from(NxGraph, sorted_nodes), sorted_edges)

\* The file: missing, unparsable, or GraphML, which lists the node elements
\* and then the edge elements in the order the writer met them.
NoFile      == [state |-> "missing", nodes |-> <<>>, edges |-> <<>>]
CorruptFile == [state |-> "corrupt", nodes |-> <<>>, edges |-> <<>>]

\* nx.write_graphml(graph, file_name)
write_nx_graph(graph) ==
    [state |-> "ok", nodes |-> nodes_data(graph), edges |-> edges_data(graph)]

\* nx.read_graphml(file_name): a new graph, the node elements added in file
\* order, then the edge elements; a file that is not GraphML raises.
read_graphml(f) ==
    IF f.state = "ok"
    THEN [raised |-> FALSE,
          graph  |-> add_edges_from(add_nodes_from(NxGraph, f.nodes), f.edges)]
    ELSE [raised |-> TRUE, graph |-> NxGraph]

\* os.path.exists(self.graphml_xml_file)
path_exists(f) == f.state # "missing"

\* A persist that writes whatever the flag says.
_persist_always_writes(graph, f, force) == write_nx_graph(graph)

\* What _persist leaves in the file.
_persist(graph, f, force) ==
    IF path_exists(f) /\ ~force THEN f ELSE write_nx_graph(graph)

\* A load that drops the graph in memory before it knows the file parses.
load_nx_graph_clears(graph, f) ==
    IF path_exists(f)
    THEN LET r == read_graphml(f)
         IN  IF r.raised THEN <<r.graph, FALSE>> ELSE <<r.graph, TRUE>>
    ELSE <<graph, FALSE>>

\* load_nx_graph: <<the graph afterwards, the value returned>>.  The read
\* raises before self._graph is assigned, and the except returns False.
load_nx_graph(graph, f) ==
    IF path_exists(f)
    THEN LET r == read_graphml(f)
         IN  IF r.raised THEN <<graph, FALSE>> ELSE <<r.graph, TRUE>>
    ELSE <<graph, FALSE>>

Call(op, force) == [op |-> op, force |-> force]

upsert_node(self, node_id, node_data) ==
    /\ _graph' = [_graph EXCEPT ![self] = add_node(@, node_id, node_data)]
    /\ last' = [last EXCEPT ![self] = Call("upsert_node", FALSE)]
    /\ ret' = None
    /\ UNCHANGED <<file, chunk_vars, batch_vars, query_vars>>

upsert_edge(self, source_node_id, target_node_id, edge_data) ==
    /\ _graph' = [_graph EXCEPT
                    ![self] = add_edge(@, source_node_id, target_node_id, edge_data)]
    /\ last' = [last EXCEPT ![self] = Call("upsert_edge", FALSE)]
    /\ ret' = None
    /\ UNCHANGED <<file, chunk_vars, batch_vars, query_vars>>

persist(self, force) ==
    /\ file' = [file EXCEPT ![self] = _persist(_graph[self], @, force)]
    /\ last' = [last EXCEPT ![self] = Call("persist", force)]
    /\ ret' = None
    /\ UNCHANGED <<_graph, chunk_vars, batch_vars, query_vars>>

load_graph(self, force) ==
    /\ IF force
       THEN /\ ret' = FALSE
            /\ UNCHANGED _graph
       ELSE LET r == load_nx_graph(_graph[self], file[self])
            IN  /\ _graph' = [_graph EXCEPT ![self] = r[1]]
                /\ ret' = r[2]
    /\ last' = [last EXCEPT ![self] = Call("load_graph", force)]
    /\ UNCHANGED <<file, chunk_vars, batch_vars, query_vars>>

-----------------------------------------------------------------------------
(* Inputs and bounds of the graph store                                    *)

MaxEdges == 2      \* edges a graph may hold

Stores == {1, 2}

\* "A", "B", "a"
IdA == <<65>>
IdB == <<66>>
Ida == <<97>>
NodeIds == {IdA, IdB, Ida}

\* The node records the upserts carry: a full record for every id and, for
\* "A", an update that carries source_id alone.  The source_id string is held
\* as the chunk ids between its separators.
NodeDatas(n) ==
    { [entity_name |-> n, source_id |-> <<"c1">>, description |-> "d1"] }
    \cup (IF n = IdA THEN { [source_id |-> <<"c2">>] } ELSE {})

EdgeDatas == { [weight |-> 1] }

NumEdges(G) == Cardinality(DOMAIN G.edata)

Fits(G) == NumEdges(G) <= MaxEdges

ChunkIdle ==
    /\ chunk_mem = <<>>
    /\ chunk_disk = [exists |-> FALSE, chunks |-> <<>>]
    /\ pc = "idle"
    /\ build = None
    /\ encode_calls = 0
    /\ split_calls = 0
    /\ history = <<>>

BatchIdle ==
    /\ indices = <<>>
    /\ tasks = <<>>
    /\ order = <<>>
    /\ outcome = [state |-> "idle", value |-> <<>>]
    /\ inflight = NoTask

QueryIdle ==
    /\ map_call = NoMapCall
    /\ communities_data = <<>>
    /\ community_groups = <<>>

-----------------------------------------------------------------------------
(* Spec: one graph store, built by upserts, persisted and loaded.  The     *)
(* file of an earlier run may be there, and may be unparsable.             *)

Init ==
    /\ _graph = [s \in Stores |-> NxGraph]
    /\ file \in {[s \in Stores |-> IF s = 1 THEN f ELSE NoFile] : f \in {NoFile, CorruptFile}}
    /\ last = [s \in Stores |-> Call("init", FALSE)]
    /\ ret = None
    /\ ChunkIdle
    /\ BatchIdle
    /\ QueryIdle

UpsertNode(self) ==
    \E n \in NodeIds : \E d \in NodeDatas(n) :
        /\ Fits(add_node(_graph[self], n, d))
        /\ upsert_node(self, n, d)

UpsertEdge(self) ==
    \E u \in NodeIds : \E v \in NodeIds \ {u} : \E d \in EdgeDatas :
        /\ Fits(add_edge(_graph[self], u, v, d))
        /\ upsert_edge(self, u, v, d)

Persist(self) == \E force \in BOOLEAN : persist(self, force)

LoadGraph(self) == \E force \in BOOLEAN : load_graph(self, force)

Next ==
    \/ UpsertNode(1)
    \/ UpsertEdge(1)
    \/ Persist(1)
    \/ LoadGraph(1)

Spec == Init /\ [][Next]_vars

-----------------------------------------------------------------------------
(* Claims on persist and load_graph (checked under Spec)                   *)

\* C4: persist(force=False) on a store whose file exists leaves the file as it
\* is, whatever the graph in memory holds; persist(force=True), and persist
\* when there is no file, leave the file holding the graph in memory.
C4_PersistWritesOnlyWhenForcedOrMissing ==
    [][ last'[1].op = "persist" =>
            IF path_exists(file[1]) /\ ~last'[1].force
            THEN file' = file
            ELSE /\ file'[1].state = "ok"
                 /\ file'[1].nodes = nodes_data(_graph[1])
                 /\ file'[1].edges = edges_data(_graph[1]) ]_vars

\* persist(force=False) has run on an existing, parsable file that differs
\* from the graph in memory, and the file still differs.
C4_Witness ==
    /\ last[1] = Call("persist", FALSE)
    /\ file[1].state = "ok"
    /\ file[1].nodes # nodes_data(_graph[1])
    /\ Len(_graph[1].node) >= 2

\* C5: load_graph(force=True) returns False and touches neither graph nor
\* file; load_graph(force=False) returns True exactly when the file exists and
\* parses, and the graph in memory then holds the file's content; otherwise it
\* returns False (it does not raise) and the graph in memory is as before.
C5_LoadGraph ==
    [][ last'[1].op = "load_graph" =>
            /\ file' = file
            /\ ret' \in BOOLEAN
            /\ IF last'[1].force
               THEN ret' = FALSE /\ _graph' = _graph
               ELSE IF file[1].state = "ok"
               THEN /\ ret' = TRUE
                    /\ nodes_data(_graph'[1]) = file[1].nodes
                    /\ edges_data(_graph'[1]) = file[1].edges
               ELSE ret' = FALSE /\ _graph' = _graph ]_vars

\* load_graph(force=False) has returned False on an unparsable file while the
\* graph in memory held nodes.
C5_Witness ==
    /\ last[1] = Call("load_graph", FALSE)
    /\ file[1].state = "corrupt"
    /\ ret = FALSE
    /\ Len(_graph[1].node) > 0

-----------------------------------------------------------------------------
(* SpecCanon: two graph stores, each with its own file, built by upserts   *)
(* in any order and persisted with force.                                  *)

InitCanon ==
    /\ _graph = [s \in Stores |-> NxGraph]
    /\ file = [s \in Stores |-> NoFile]
    /\ last = [s \in Stores |-> Call("init", FALSE)]
    /\ ret = None
    /\ ChunkIdle
    /\ BatchIdle
    /\ QueryIdle

\* The upserts of the two builds: full node records for "A" and "B", and
\* the edge between them given from either end.
CanonIds == {IdA, IdB}

UpsertNodeCanon(self) ==
    \E n \in CanonIds :
        LET d == [entity_name |-> n, source_id |-> <<"c1">>, description |-> "d1"]
        IN  /\ Fits(add_node(_graph[self], n, d))
            /\ upsert_node(self, n, d)

UpsertEdgeCanon(self) ==
    \E u \in CanonIds : \E v \in CanonIds \ {u} : \E d \in EdgeDatas :
        /\ Fits(add_edge(_graph[self], u, v, d))
        /\ upsert_edge(self, u, v, d)

PersistForce(self) == persist(self, TRUE)

NextCanon ==
    \E self \in Stores :
        \/ UpsertNodeCanon(self)
        \/ UpsertEdgeCanon(self)
        \/ PersistForce(self)

SpecCanon == InitCanon /\ [][NextCanon]_vars

\* The two graphs hold the same nodes, edges and attributes.
SameContent(G, H) ==
    /\ Range(G.node) = Range(H.node)
    /\ \A n \in Range(G.node) : G.data[n] = H.data[n]
    /\ DOMAIN G.edata = DOMAIN H.edata
    /\ \A e \in DOMAIN G.edata : G.edata[e] = H.edata[e]

\* C1: two stores that hold the same nodes, edges and attributes, each just
\* persisted with force=True, have identical files, whatever the order of the
\* upserts that built them.
C1_SameContentSameFile ==
    ( /\ last[1] = Call("persist", TRUE)
      /\ last[2] = Call("persist", TRUE)
      /\ SameContent(_graph[1], _graph[2]) )
    => file[1] = file[2]

-----------------------------------------------------------------------------
(* DocChunk.build_chunks over ChunkKVStorage                               *)

MaxBuilds == 2     \* build_chunks calls in one behaviour

\* "ab", " ab ", "bc" and "bb"
DocAB   == <<97, 98>>
DocABsp == <<32, 97, 98, 32>>
DocBC   == <<98, 99>>
DocBB   == <<98, 98>>

\* The docs arguments the calls are given.
DocLists == { <<DocAB>>, <<DocABsp, DocBC>>, <<DocBC>>, <<DocBB>> }

IsSpace(c) == c = 32 \/ (9 <= c /\ c <= 13)

RECURSIVE LStrip(_)
LStrip(s) == IF s # <<>> /\ IsSpace(Head(s)) THEN LStrip(Tail(s)) ELSE s

RECURSIVE RStrip(_)
RStrip(s) ==
    IF s # <<>> /\ IsSpace(s[Len(s)]) THEN RStrip(SubSeq(s, 1, Len(s) - 1)) ELSE s

\* str.strip()
strip(s) == RStrip(LStrip(s))

\* mdhash_id(content, prefix): the prefix and the md5 digest of the content.
\* The digest is held as the content it was taken of: equal contents give
\* equal digests, and no two contents of the model collide.
mdhash_id(content, prefix) == <<prefix, content>>

\* {mdhash_id(doc.strip(), "doc-"): {"content": doc.strip()} for doc in docs}
\* as the list of its items: a dict keeps a repeated key at its first place.
RECURSIVE DocItems(_, _)
DocItems(docs, seen) ==
    IF docs = <<>> THEN <<>>
    ELSE LET c == strip(Head(docs))
             k == mdhash_id(c, "doc-")
         IN  IF k \in seen THEN DocItems(Tail(docs), seen)
             ELSE <<[key |-> k, content |-> c]>> \o DocItems(Tail(docs), seen \cup {k})

\* token_model.encode_batch: one token per character.
encode_batch(docs) == docs

\* The chunk method: every document cut into windows of one token, each
\* chunk carrying its text, its document's key and its place in the document.
RECURSIVE chunk_method(_, _)
chunk_method(tokens, doc_keys) ==
    IF tokens = <<>> THEN <<>>
    ELSE [i \in 1..Len(Head(tokens)) |->
             [content |-> <<Head(tokens)[i]>>, doc_id |-> Head(doc_keys),
              chunk_order_index |-> i - 1]]
         \o chunk_method(Tail(tokens), Tail(doc_keys))

\* ChunkKVStorage.upsert(key, chunk): a known key keeps its place and takes
\* the new chunk, a new key goes to the end.
chunk_upsert(mem, key, chunk) ==
    IF \E j \in 1..Len(mem) : mem[j].key = key
    THEN [j \in 1..Len(mem) |->
             IF mem[j].key = key THEN [key |-> key, chunk |-> chunk] ELSE mem[j]]
    ELSE Append(mem, [key |-> key, chunk |-> chunk])

\* ChunkKVStorage.persist(): the durable form of what is in memory.
chunk_persist(mem) == [exists |-> TRUE, chunks |-> mem]

\* ChunkKVStorage.load_chunk(): <<memory afterwards, whether a store was loaded>>
load_chunk(mem, disk) == IF disk.exists THEN <<disk.chunks, TRUE>> ELSE <<mem, FALSE>>

\* _load_chunk(force)
_load_chunk(mem, disk, force) == IF force THEN <<mem, FALSE>> ELSE load_chunk(mem, disk)

\* An id taken of the chunk's text and of the document it was cut from.
chunk_id_per_doc(chunk) == mdhash_id(<<chunk.content, chunk.doc_id>>, "chunk-")

\* chunk["chunk_id"] = mdhash_id(chunk["content"], prefix="chunk-")
chunk_id(chunk) == mdhash_id(chunk.content, "chunk-")

\* A guard that rebuilds whatever was loaded.
needs_build_always(is_exist, force) == TRUE

\* if not is_exist or force:
needs_build(is_exist, force) == ~is_exist \/ force

\* A persist that does not wait for the loop to end.
loop_done_early(i, chunks) == TRUE

\* The for loop over chunks has run out.
loop_done(i, chunks) == i > Len(chunks)

\* What a call that ended leaves in history.
Returned(how) ==
    [force |-> build.force, docs |-> build.docs, how |-> how,
     existed |-> build.disk0.exists, disk0 |-> build.disk0, disk1 |-> chunk_disk',
     enc0 |-> build.enc0, enc1 |-> encode_calls',
     split0 |-> build.split0, split1 |-> split_calls',
     n_chunks |-> Len(build.chunks), upserts |-> build.upserts,
     persists |-> build.persists']

\* build_chunks(docs, force), up to the await of _load_chunk.
build_chunks(docs, force) ==
    /\ pc = "idle"
    /\ Len(history) < MaxBuilds
    /\ LET r == _load_chunk(chunk_mem, chunk_disk, force)
       IN  /\ chunk_mem' = r[1]
           /\ build' = [force |-> force, docs |-> docs, is_exist |-> r[2],
                        disk0 |-> chunk_disk, enc0 |-> encode_calls,
                        split0 |-> split_calls, doc_keys |-> <<>>, tokens |-> <<>>,
                        chunks |-> <<>>, i |-> 1, upserts |-> 0, persists |-> 0]
    /\ pc' = "check"
    /\ UNCHANGED <<chunk_disk, encode_calls, split_calls, history, graph_vars, batch_vars, query_vars>>

\* The guard is false: the call logs and returns.
build_skip ==
    /\ pc = "check"
    /\ ~needs_build(build.is_exist, build.force)
    /\ pc' = "idle"
    /\ UNCHANGED <<build, chunk_mem, chunk_disk, encode_calls, split_calls>>
    /\ history' = Append(history, Returned("ok"))
    /\ UNCHANGED <<graph_vars, batch_vars, query_vars>>

\* The documents are keyed and stripped, and the tokenizer is called.
build_encode ==
    /\ pc = "check"
    /\ needs_build(build.is_exist, build.force)
    /\ LET items == DocItems(build.docs, {})
           docs  == [j \in 1..Len(items) |-> items[j].content]
       IN  build' = [build EXCEPT !.doc_keys = [j \in 1..Len(items) |-> items[j].key],
                                  !.tokens = encode_batch(docs)]
    /\ encode_calls' = encode_calls + 1
    /\ pc' = "split"
    /\ UNCHANGED <<chunk_mem, chunk_disk, split_calls, history, graph_vars, batch_vars, query_vars>>

\* The chunk method is awaited.
build_split ==
    /\ pc = "split"
    /\ build' = [build EXCEPT !.chunks = chunk_method(build.tokens, build.doc_keys)]
    /\ split_calls' = split_calls + 1
    /\ pc' = "upsert"
    /\ UNCHANGED <<chunk_mem, chunk_disk, encode_calls, history, graph_vars, batch_vars, query_vars>>

\* One round of the loop: the chunk gets its id and is upserted.
build_upsert ==
    /\ pc = "upsert"
    /\ build.i <= Len(build.chunks)
    /\ LET chunk == build.chunks[build.i]
       IN  chunk_mem' = chunk_upsert(chunk_mem, chunk_id(chunk), chunk)
    /\ build' = [build EXCEPT !.i = @ + 1, !.upserts = @ + 1]
    /\ UNCHANGED <<pc, chunk_disk, encode_calls, split_calls, history, graph_vars, batch_vars, query_vars>>

\* After the loop the store is persisted, and the call returns.
build_persist ==
    /\ pc = "upsert"
    /\ loop_done(build.i, build.chunks)
    /\ chunk_disk' = chunk_persist(chunk_mem)
    /\ build' = [build EXCEPT !.persists = @ + 1]
    /\ pc' = "idle"
    /\ UNCHANGED <<chunk_mem, encode_calls, split_calls, graph_vars, batch_vars, query_vars>>
    /\ history' = Append(history, Returned("ok"))

\* The call the pass is waiting on raises (the tokenizer, the chunk method,
\* an upsert): nothing in build_chunks catches it, the call ends there.
build_raise ==
    /\ \/ pc = "check" /\ needs_build(build.is_exist, build.force)
          /\ encode_calls' = encode_calls + 1 /\ UNCHANGED split_calls
       \/ pc = "split"
          /\ split_calls' = split_calls + 1 /\ UNCHANGED encode_calls
       \/ pc = "upsert" /\ build.i <= Len(build.chunks)
          /\ UNCHANGED <<encode_calls, split_calls>>
    /\ pc' = "idle"
    /\ UNCHANGED <<build, chunk_mem, chunk_disk>>
    /\ history' = Append(history, Returned("raised"))
    /\ UNCHANGED <<graph_vars, batch_vars, query_vars>>

\* The process is stopped inside the pass and started again: DocChunk is
\* constructed anew, with an empty ChunkKVStorage over the same namespace.
build_interrupt ==
    /\ pc \in {"check", "split", "upsert"}
    /\ pc' = "idle"
    /\ chunk_mem' = <<>>
    /\ UNCHANGED <<build, chunk_disk, encode_calls, split_calls>>
    /\ history' = Append(history, Returned("interrupted"))
    /\ UNCHANGED <<graph_vars, batch_vars, query_vars>>

GraphIdle ==
    /\ _graph = [s \in Stores |-> NxGraph]
    /\ file = [s \in Stores |-> NoFile]
    /\ last = [s \in Stores |-> Call("init", FALSE)]
    /\ ret = None

InitChunk == GraphIdle /\ ChunkIdle /\ BatchIdle /\ QueryIdle

BuildChunks == \E docs \in DocLists : \E force \in BOOLEAN : build_chunks(docs, force)

NextChunk ==
    \/ BuildChunks
    \/ build_skip
    \/ build_encode
    \/ build_split
    \/ build_upsert
    \/ build_persist
    \/ build_raise
    \/ build_interrupt

SpecChunk == InitChunk /\ [][NextChunk]_vars

\* C2: a build_chunks(docs, force=False) that finds a persisted chunk store
\* calls neither the tokenizer nor the chunk method, upserts nothing and
\* persists nothing; and of two calls in a row on the same documents without
\* force, both returning, the second leaves the persisted state where the
\* first left it, the tokenizer and the chunk method having been called once
\* over the two when the store was not persisted before, and not at all when
\* it was.
C2_RebuildSkip ==
    /\ (pc # "idle" /\ build.disk0.exists /\ ~build.force) =>
          /\ encode_calls = build.enc0
          /\ split_calls = build.split0
          /\ build.upserts = 0
          /\ chunk_disk = build.disk0
    /\ \A k \in 1..Len(history) :
          LET h == history[k]
          IN  (h.existed /\ ~h.force) =>
                 /\ h.enc1 = h.enc0
                 /\ h.split1 = h.split0
                 /\ h.upserts = 0
                 /\ h.persists = 0
                 /\ h.disk1 = h.disk0
    /\ \A k \in 1..(Len(history) - 1) :
          LET h1 == history[k]
              h2 == history[k + 1]
              once == IF h1.existed THEN 0 ELSE 1
          IN  ( /\ h1.how = "ok" /\ h2.how = "ok"
                /\ ~h1.force /\ ~h2.force
                /\ h1.docs = h2.docs ) =>
                 /\ h2.disk1 = h1.disk1
                 /\ h2.enc1 - h1.enc0 = once
                 /\ h2.split1 - h1.split0 = once

\* Two calls without force on the same documents have returned, the first on
\* a store that was not persisted; the chunk method ran once.
C2_Witness ==
    /\ Len(history) = 2
    /\ history[1].how = "ok" /\ history[2].how = "ok"
    /\ ~history[1].force /\ ~history[2].force
    /\ history[1].docs = history[2].docs
    /\ ~history[1].existed
    /\ split_calls = 1
    /\ Len(chunk_disk.chunks) = 3

\* C3: the chunk store is persisted only once every chunk the chunk method
\* returned has been upserted; a pass that raises or is interrupted persists
\* nothing and leaves the persisted state as it found it; and when that state
\* is "none", the next build_chunks(force=False) that returns has run the
\* whole pass: tokenizer, chunk method, every upsert, persist.
C3_PersistAfterAllUpserts ==
    /\ pc # "idle" => chunk_disk = build.disk0
    /\ \A k \in 1..Len(history) :
          LET h == history[k]
          IN  /\ h.persists <= 1
              /\ h.persists = 1 => (h.how = "ok" /\ h.upserts = h.n_chunks)
              /\ h.how # "ok" => (h.persists = 0 /\ h.disk1 = h.disk0)
    /\ (pc = "idle" /\ Len(history) > 0 /\ history[Len(history)].persists = 1) =>
          \A j \in 1..Len(build.chunks) :
              \E m \in 1..Len(chunk_disk.chunks) :
                  /\ chunk_disk.chunks[m].key = mdhash_id(build.chunks[j].content, "chunk-")
                  /\ chunk_disk.chunks[m].chunk.content = build.chunks[j].content
    /\ \A k \in 1..(Len(history) - 1) :
          LET h1 == history[k]
              h2 == history[k + 1]
          IN  (h1.how # "ok" /\ ~h1.disk0.exists /\ ~h2.force /\ h2.how = "ok") =>
                 /\ h2.enc1 = h2.enc0 + 1
                 /\ h2.split1 = h2.split0 + 1
                 /\ h2.upserts = h2.n_chunks
                 /\ h2.persists = 1
                 /\ h2.disk1.exists

\* A pass raised after it had upserted some but not all chunks, nothing was
\* persisted, and the next call without force ran the pass and persisted.
C3_Witness ==
    /\ Len(history) = 2
    /\ history[1].how = "raised"
    /\ history[1].upserts > 0 /\ history[1].upserts < history[1].n_chunks
    /\ ~history[1].disk1.exists
    /\ ~history[2].force /\ history[2].how = "ok"
    /\ history[2].persists = 1

-----------------------------------------------------------------------------
(* DocChunk.get_data_by_indices: asyncio.gather over one fetch per index   *)

MaxIndices == 2    \* length of the indices argument

\* The index values the calls are given; the largest is in no store.
IndexVals == 0..3

\* The chunk store a finished build pass over docs leaves in memory.
RECURSIVE UpsertAll(_, _)
UpsertAll(mem, chunks) ==
    IF chunks = <<>> THEN mem
    ELSE UpsertAll(chunk_upsert(mem, mdhash_id(Head(chunks).content, "chunk-"), Head(chunks)),
                   Tail(chunks))

BuiltStore(docs) ==
    LET items == DocItems(docs, {})
    IN  UpsertAll(<<>>, chunk_method(encode_batch([j \in 1..Len(items) |-> items[j].content]),
                                     [j \in 1..Len(items) |-> items[j].key]))

\* ChunkKVStorage.get_data_by_index(index): the chunk at that place of the
\* insertion order; no chunk there is NotFound.
chunk_at(mem, index) ==
    IF 0 <= index /\ index < Len(mem)
    THEN [found |-> TRUE, chunk |-> mem[index + 1].chunk]
    ELSE [found |-> FALSE, chunk |-> None]

Pending == [state |-> "pending", value |-> <<>>]

\* A gather that lists the results as the fetches complete.
gather_results_as_completed(ts, ord) == [j \in 1..Len(ord) |-> ts[ord[j]].value]

\* asyncio.gather: the results in the order of the awaitables it was given.
gather_results(ts, ord) == [k \in 1..Len(ts) |-> ts[k].value]

\* What gather's future holds once the fetches stand as ts: the first
\* exception ends it, and so does the completion of the last fetch.
gather_outcome(old, ts, ord) ==
    IF old.state # "pending" THEN old
    ELSE IF \E k \in 1..Len(ts) : ts[k].state = "raised"
    THEN [state |-> "raised", value |-> <<>>]
    ELSE IF \A k \in 1..Len(ts) : ts[k].state = "done"
    THEN [state |-> "returned", value |-> gather_results(ts, ord)]
    ELSE old

\* get_data_by_indices(indices): one get_data_by_index coroutine per index is
\* handed to gather; the call of an earlier batch has ended.
get_data_by_indices(ixs) ==
    /\ outcome.state # "pending"
    /\ indices' = ixs
    /\ tasks' = [k \in 1..Len(ixs) |-> Pending]
    /\ order' = <<>>
    /\ outcome' = gather_outcome([state |-> "pending", value |-> <<>>], tasks', order')
    /\ UNCHANGED <<inflight, graph_vars, chunk_vars, query_vars>>

\* The fetch at position k completes: get_data_by_index returns chunk.content.
fetch_return(k) ==
    /\ k \in 1..Len(tasks)
    /\ tasks[k].state = "pending"
    /\ chunk_at(chunk_mem, indices[k]).found
    /\ tasks' = [tasks EXCEPT ![k] =
                    [state |-> "done", value |-> chunk_at(chunk_mem, indices[k]).chunk.content]]
    /\ order' = Append(order, k)
    /\ outcome' = gather_outcome(outcome, tasks', order')
    /\ UNCHANGED <<indices, inflight, graph_vars, chunk_vars, query_vars>>

\* The fetch at position k raises: no chunk at the index, or the read failed.
fetch_raise(k) ==
    /\ k \in 1..Len(tasks)
    /\ tasks[k].state = "pending"
    /\ tasks' = [tasks EXCEPT ![k] = [state |-> "raised", value |-> <<>>]]
    /\ order' = Append(order, k)
    /\ outcome' = gather_outcome(outcome, tasks', order')
    /\ UNCHANGED <<indices, inflight, graph_vars, chunk_vars, query_vars>>

\* A process that has loaded a chunk store built from one of the docs lists.
InitBatch ==
    /\ GraphIdle
    /\ \E docs \in DocLists :
          /\ chunk_mem = BuiltStore(docs)
          /\ chunk_disk = chunk_persist(chunk_mem)
    /\ pc = "idle"
    /\ build = None
    /\ encode_calls = 0
    /\ split_calls = 0
    /\ history = <<>>
    /\ indices = <<>>
    /\ tasks = <<>>
    /\ order = <<>>
    /\ outcome = [state |-> "idle", value |-> <<>>]
    /\ inflight = NoTask
    /\ QueryIdle

IndexLists == UNION {[1..n -> IndexVals] : n \in 0..MaxIndices}

GetDataByIndices == \E ixs \in IndexLists : get_data_by_indices(ixs)

FetchReturn == \E k \in 1..MaxIndices : fetch_return(k)

FetchRaise == \E k \in 1..MaxIndices : fetch_raise(k)

NextBatch ==
    \/ GetDataByIndices
    \/ FetchReturn
    \/ FetchRaise

SpecBatch == InitBatch /\ [][NextBatch]_vars

\* C6: what get_data_by_indices returns has, at every position k, the content
\* of the chunk at indices[k], in whatever order the fetches completed; and
\* once a fetch has failed the call has failed: it returns no list.
C6_BatchOrder ==
    /\ outcome.state = "returned" =>
          /\ Len(outcome.value) = Len(indices)
          /\ \A k \in 1..Len(indices) :
                /\ chunk_at(chunk_mem, indices[k]).found
                /\ outcome.value[k] = chunk_mem[indices[k] + 1].chunk.content
    /\ (\E k \in 1..Len(tasks) : tasks[k].state = "raised") =>
          (outcome.state = "raised" /\ outcome.value = <<>>)

\* A batch over two different chunks has returned, the fetch of the second
\* position having completed first.
C6_Witness ==
    /\ outcome.state = "returned"
    /\ Len(indices) = 2
    /\ order = <<2, 1>>
    /\ outcome.value[1] # outcome.value[2]

-----------------------------------------------------------------------------
(* NetworkXStorage.get_community_schema                                    *)
(*                                                                         *)
(* The clusters attribute is held as the list json.loads gives back, a     *)
(* cluster key str(cluster["cluster"]) as the number it prints, and the    *)
(* sets the code builds (nodes, edges, chunk_ids) as sets.  occurrence is  *)
(* the quotient [num, den] of the division in the last loop.  The value    *)
(* returned holds, under "schemas", the content of every community and,    *)
(* under "listed", the lists that list(a_set) made of the sets.            *)

\* cluster_data_to_subgraphs({node_id: clusters}): the node's clusters
\* attribute is set (json.dumps of the list).
set_clusters(G, node_id, clusters) ==
    [G EXCEPT !.data = [m \in DOMAIN G.data |->
        IF m = node_id THEN DictUpdate(G.data[m], [clusters |-> clusters]) ELSE G.data[m]]]

\* Every edge of the graph, whoever it touches.
node_edges_all(G, node_id) ==
    {IF StrLess(e[2], e[1]) THEN <<e[2], e[1]>> ELSE <<e[1], e[2]>> :
        e \in UNION {Range(edges_of(G, n)) : n \in Range(G.node)}}

\* [tuple(sorted(e)) for e in self._graph.edges(node_id)], as a set
node_edges(G, node_id) ==
    {IF StrLess(e[2], e[1]) THEN <<e[2], e[1]>> ELSE <<e[1], e[2]>> :
        e \in Range(edges_of(G, node_id))}

\* A split that keeps the first chunk id alone.
split_source_id_first(source_id) == {source_id[1]}

\* node_data["source_id"].split(GRAPH_FIELD_SEP), as a set
split_source_id(source_id) == Range(source_id)

\* A maximum that is set once and never raised.
running_max_first(m, n) == IF m = 0 THEN n ELSE m

\* max(max_num_ids, len(chunk_ids))
running_max(m, n) == IF n > m THEN n ELSE m

\* "By nodes intersection": a community that shares a node counts.
is_sub_community_by_intersection(sub_nodes, nodes) == sub_nodes \cap nodes # {}

\* _schemas[c].nodes.issubset(_schemas[comm].nodes)
is_sub_community(sub_nodes, nodes) == sub_nodes \subseteq nodes

\* LeidenInfo(): the record defaultdict makes for a cluster key it has not
\* seen, with sets and a list of its own, all empty.
LeidenInfo ==
    [level |-> None, title |-> None, nodes |-> {}, edges |-> {}, chunk_ids |-> {},
     sub_communities |-> {}, occurrence |-> [num |-> 0, den |-> 1]]

\* What one round of the inner loop does to _schemas, levels and max_num_ids.
SchemaRound(acc, G, node_id, cluster) ==
    LET node_data == G.data[node_id]
        key == cluster.cluster
        old == IF key \in DOMAIN acc.schemas THEN acc.schemas[key] ELSE LeidenInfo
        chunk_ids == old.chunk_ids \cup split_source_id(node_data.source_id)
        info == [old EXCEPT !.level = cluster.level,
                            !.title = <<"Cluster", key>>,
                            !.nodes = @ \cup {node_id},
                            !.edges = @ \cup node_edges(G, node_id),
                            !.chunk_ids = chunk_ids]
    IN  IF acc.error # "none" THEN acc
        ELSE IF "source_id" \notin DOMAIN node_data THEN [acc EXCEPT !.error = "KeyError"]
        ELSE [acc EXCEPT
                !.schemas = [k \in (DOMAIN acc.schemas) \cup {key} |->
                                IF k = key THEN info ELSE acc.schemas[k]],
                !.levels = [l \in (DOMAIN acc.levels) \cup {cluster.level} |->
                                IF l = cluster.level
                                THEN (IF l \in DOMAIN acc.levels THEN acc.levels[l] ELSE {})
                                        \cup {key}
                                ELSE acc.levels[l]],
                !.max_num_ids = running_max(acc.max_num_ids, Cardinality(chunk_ids))]

\* for cluster in clusters
RECURSIVE SchemaClusters(_, _, _, _)
SchemaClusters(acc, G, node_id, clusters) ==
    IF clusters = <<>> THEN acc
    ELSE SchemaClusters(SchemaRound(acc, G, node_id, Head(clusters)), G, node_id,
                        Tail(clusters))

\* for node_id, node_data in self._graph.nodes(data=True), from place i on
RECURSIVE SchemaNodes(_, _, _)
SchemaNodes(acc, G, i) ==
    IF i > Len(G.node) THEN acc
    ELSE LET n == G.node[i]
         IN  IF "clusters" \notin DOMAIN G.data[n]
             THEN SchemaNodes(acc, G, i + 1)
             ELSE SchemaNodes(SchemaClusters(acc, G, n, G.data[n].clusters), G, i + 1)

\* The levels from the finest to the coarsest.
RECURSIVE SortedIntsDescending(_)
SortedIntsDescending(S) ==
    IF S = {} THEN <<>>
    ELSE LET hi == CHOOSE x \in S : \A y \in S : y <= x
         IN  <<hi>> \o SortedIntsDescending(S \ {hi})

\* sorted(levels.keys())
RECURSIVE SortedInts(_)
SortedInts(S) ==
    IF S = {} THEN <<>>
    ELSE LET lo == CHOOSE x \in S : \A y \in S : x <= y
         IN  <<lo>> \o SortedInts(S \ {lo})

\* The loop over adjacent levels, from place i of ordered_levels on: every
\* community of the level gets the communities of the next level it holds.
RECURSIVE SchemaSubs(_, _, _, _)
SchemaSubs(schemas, levels, ordered_levels, i) ==
    IF i >= Len(ordered_levels) THEN schemas
    ELSE LET this_level_comms == levels[ordered_levels[i]]
             next_level_comms == levels[ordered_levels[i + 1]]
             next == [k \in DOMAIN schemas |->
                        IF k \in this_level_comms
                        THEN [schemas[k] EXCEPT !.sub_communities =
                                {c \in next_level_comms :
                                    is_sub_community(schemas[c].nodes, schemas[k].nodes)}]
                        ELSE schemas[k]]
         IN  SchemaSubs(next, levels, ordered_levels, i + 1)

\* get_community_schema of a graph: what it returns, or the error it raises.
community_schema(G) ==
    LET start == [schemas |-> EmptyBag, levels |-> EmptyBag, max_num_ids |-> 0,
                  error |-> "none"]
        acc == SchemaNodes(start, G, 1)
        subs == SchemaSubs(acc.schemas, acc.levels, SortedInts(DOMAIN acc.levels), 1)
    IN  IF acc.error # "none" THEN [error |-> acc.error, schemas |-> EmptyBag]
        ELSE IF DOMAIN subs # {} /\ acc.max_num_ids = 0
        THEN [error |-> "ZeroDivisionError", schemas |-> EmptyBag]
        ELSE [error |-> "none",
              schemas |-> [k \in DOMAIN subs |->
                             [subs[k] EXCEPT !.occurrence =
                                 [num |-> Cardinality(subs[k].chunk_ids),
                                  den |-> acc.max_num_ids]]]]

cluster_data_to_subgraphs(self, node_id, clusters) ==
    /\ _graph' = [_graph EXCEPT ![self] = set_clusters(@, node_id, clusters)]
    /\ last' = [last EXCEPT ![self] = Call("cluster_data_to_subgraphs", FALSE)]
    /\ ret' = None
    /\ UNCHANGED <<file, chunk_vars, batch_vars, query_vars>>

\* The elements of a set, one after the other.
RECURSIVE SetToSeq(_)
SetToSeq(S) ==
    IF S = {} THEN <<>>
    ELSE LET x == CHOOSE y \in S : TRUE
         IN  <<x>> \o SetToSeq(S \ {x})

Reverse(s) == [i \in 1..Len(s) |-> s[Len(s) + 1 - i]]

\* The characters of the chunk ids of the model.
StrCodes(c) ==
    CASE c = ""   -> <<>>
      [] c = "c1" -> <<99, 49>>
      [] c = "c2" -> <<99, 50>>

\* str(cluster["cluster"]), for the one-digit clusters of the model.
ClusterCodes(c) == <<48 + c>>

\* The keys under which Python orders node ids, (u, v) pairs, chunk ids and
\* cluster keys: tuples compare element by element.
NodeKeyed(S)  == {<<n, n>> : n \in S}
EdgeKeyed(S)  == {<<e[1] \o <<0>> \o e[2], e>> : e \in S}
ChunkKeyed(S) == {<<StrCodes(c), c>> : c \in S}
ClusterKeyed(S) == {<<ClusterCodes(c), c>> : c \in S}

\* sorted(set), from the set of <<key, element>> pairs
sorted_set(K) == Unkeyed(SortKeyed(SetToSeq(K)))

\* The orders in which a set of strings is iterated: the order follows the
\* hashes of the strings, which differ from one process to the next.  Two of
\* the possible orders are taken.
SetOrders == {"ascending", "descending"}

\* list(a_set)
list_of_set(K, set_order) ==
    IF set_order = "ascending" THEN sorted_set(K) ELSE Reverse(sorted_set(K))

\* The last loop of get_community_schema and the comprehension over
\* next_level_comms: the lists the caller receives, next to their content.
listed_schema(r, set_order) ==
    IF r.error # "none" THEN r
    ELSE [error |-> r.error, schemas |-> r.schemas,
          listed |-> [k \in DOMAIN r.schemas |->
              [nodes |-> list_of_set(NodeKeyed(r.schemas[k].nodes), set_order),
               edges |-> list_of_set(EdgeKeyed(r.schemas[k].edges), set_order),
               chunk_ids |-> list_of_set(ChunkKeyed(r.schemas[k].chunk_ids), set_order),
               sub_communities |->
                   list_of_set(ClusterKeyed(r.schemas[k].sub_communities), set_order)]]]

get_community_schema(self) ==
    /\ \E set_order \in SetOrders :
          ret' = listed_schema(community_schema(_graph[self]), set_order)
    /\ last' = [last EXCEPT ![self] = Call("get_community_schema", FALSE)]
    /\ UNCHANGED <<_graph, file, chunk_vars, batch_vars, query_vars>>

\* "X", "Y", "Z"
IdX == <<88>>
IdY == <<89>>
IdZ == <<90>>
SchemaIds == {IdX, IdY, IdZ}

\* The records the entities are upserted with: X is attested by chunk c1, Y by
\* c1 and c2, Z carries an empty source_id string.
SchemaData(n) ==
    [entity_name |-> n,
     source_id |-> IF n = IdX THEN <<"c1">> ELSE IF n = IdY THEN <<"c1", "c2">> ELSE <<"">>]

Label(level, cluster) == [level |-> level, cluster |-> cluster]

\* The cluster lists the clustering step hands over.
ClusterLists ==
    { <<Label(0, 1)>>,
      <<Label(0, 1), Label(1, 2)>>,
      <<Label(0, 3)>>,
      <<Label(1, 2)>> }

UpsertEntity(self) ==
    \E n \in SchemaIds :
        /\ IF has_node(_graph[self], n)
           THEN "source_id" \notin DOMAIN _graph[self].data[n]
           ELSE TRUE
        /\ upsert_node(self, n, SchemaData(n))

UpsertRelation(self) ==
    \E u \in SchemaIds : \E v \in SchemaIds \ {u} : \E d \in EdgeDatas :
        /\ ~has_edge(_graph[self], u, v)
        /\ Fits(add_edge(_graph[self], u, v, d))
        /\ upsert_edge(self, u, v, d)

\* The clustering step labels entities that were upserted with their record.
ClusterDataToSubgraphs(self) ==
    \E n \in SchemaIds : \E cl \in ClusterLists :
        /\ has_node(_graph[self], n)
        /\ "source_id" \in DOMAIN _graph[self].data[n]
        /\ cluster_data_to_subgraphs(self, n, cl)

NextSchema ==
    \/ UpsertEntity(1)
    \/ UpsertRelation(1)
    \/ ClusterDataToSubgraphs(1)
    \/ get_community_schema(1)

SpecSchema == InitChunk /\ [][NextSchema]_vars

-----------------------------------------------------------------------------
(* Claims on get_community_schema (checked under SpecSchema)               *)

\* get_community_schema ran last on store 1 and returned its schema.
SchemaReturned == last[1].op = "get_community_schema" /\ ret.error = "none"

\* C7: for every returned community A and every id B in A.sub_communities,
\* B is a returned community and B.nodes is a subset of A.nodes.
C7_SubCommunitiesAreSubsets ==
    SchemaReturned =>
        \A A \in DOMAIN ret.schemas : \A B \in ret.schemas[A].sub_communities :
            /\ B \in DOMAIN ret.schemas
            /\ ret.schemas[B].nodes \subseteq ret.schemas[A].nodes

\* A community of two nodes has been returned whose sub-community holds
\* one of them only.
C7_Witness ==
    /\ SchemaReturned
    /\ \E A \in DOMAIN ret.schemas : \E B \in ret.schemas[A].sub_communities :
          /\ Cardinality(ret.schemas[A].nodes) = 2
          /\ Cardinality(ret.schemas[B].nodes) = 1

\* The largest number of chunk ids a returned community holds.
MaxChunkIds(schemas) ==
    CHOOSE m \in {Cardinality(schemas[c].chunk_ids) : c \in DOMAIN schemas} :
        \A c \in DOMAIN schemas : Cardinality(schemas[c].chunk_ids) <= m

\* C8: get_community_schema never fails on a division by zero; every returned
\* community has occurrence = |chunk_ids| / (the largest |chunk_ids| of the
\* returned communities), which lies between 0 and 1; and when a community is
\* returned, some community has occurrence 1.
C8_Occurrence ==
    last[1].op = "get_community_schema" =>
        /\ ret.error # "ZeroDivisionError"
        /\ ret.error = "none" =>
              /\ \A c \in DOMAIN ret.schemas :
                    LET occ == ret.schemas[c].occurrence
                    IN  /\ occ.num = Cardinality(ret.schemas[c].chunk_ids)
                        /\ occ.den = MaxChunkIds(ret.schemas)
                        /\ occ.den > 0
                        /\ 0 <= occ.num /\ occ.num <= occ.den
              /\ DOMAIN ret.schemas # {} =>
                    \E c \in DOMAIN ret.schemas :
                        ret.schemas[c].occurrence.num = ret.schemas[c].occurrence.den

\* Communities of different occurrence have been returned, the one that
\* holds the most chunk ids not being the one met last.
C8_Witness ==
    /\ SchemaReturned
    /\ \E c \in DOMAIN ret.schemas : \E d \in DOMAIN ret.schemas :
          /\ ret.schemas[c].occurrence.num = 2
          /\ ret.schemas[d].occurrence.num = 1
    /\ "clusters" \in DOMAIN _graph[1].data[_graph[1].node[Len(_graph[1].node)]]
    /\ _graph[1].data[_graph[1].node[Len(_graph[1].node)]].source_id = <<"">>

\* The graph of the scenario: X in cluster 1 of level 0 with chunk c1, Y in
\* cluster 1 of level 0 and cluster 2 of level 1 with chunks c1 and c2, and
\* the edge (X, Y).
Scenario(G) ==
    /\ Range(G.node) = {IdX, IdY}
    /\ DOMAIN G.data[IdX] = {"entity_name", "source_id", "clusters"}
    /\ G.data[IdX].clusters = <<Label(0, 1)>>
    /\ G.data[IdX].source_id = <<"c1">>
    /\ DOMAIN G.data[IdY] = {"entity_name", "source_id", "clusters"}
    /\ G.data[IdY].clusters = <<Label(0, 1), Label(1, 2)>>
    /\ G.data[IdY].source_id = <<"c1", "c2">>
    /\ DOMAIN G.edata = {EdgeKey(IdX, IdY)}

\* C9 as stated: on the scenario graph, community 1 has nodes {X, Y}, chunk
\* ids {c1, c2} and occurrence 1.0, and community 2 has nodes {Y} and
\* occurrence 0.5.
C9_ScenarioAsStated ==
    (last[1].op = "get_community_schema" /\ Scenario(_graph[1])) =>
        /\ ret.error = "none"
        /\ DOMAIN ret.schemas = {1, 2}
        /\ ret.schemas[1].nodes = {IdX, IdY}
        /\ ret.schemas[1].chunk_ids = {"c1", "c2"}
        /\ ret.schemas[1].occurrence.num = ret.schemas[1].occurrence.den
        /\ ret.schemas[2].nodes = {IdY}
        /\ 2 * ret.schemas[2].occurrence.num = ret.schemas[2].occurrence.den

\* C9 as amended: on the scenario graph, community 1 has nodes {X, Y}, chunk
\* ids {c1, c2} and occurrence 1.0, and community 2 has nodes {Y}, chunk ids
\* {c1, c2} (those of Y) and so occurrence 2/2 = 1.0.
C9_ScenarioAmended ==
    (last[1].op = "get_community_schema" /\ Scenario(_graph[1])) =>
        /\ ret.error = "none"
        /\ DOMAIN ret.schemas = {1, 2}
        /\ ret.schemas[1].nodes = {IdX, IdY}
        /\ ret.schemas[1].chunk_ids = {"c1", "c2"}
        /\ ret.schemas[1].occurrence = [num |-> 2, den |-> 2]
        /\ ret.schemas[2].nodes = {IdY}
        /\ ret.schemas[2].chunk_ids = {"c1", "c2"}
        /\ ret.schemas[2].occurrence = [num |-> 2, den |-> 2]

\* get_community_schema has returned on the scenario graph.
C9_Witness == SchemaReturned /\ Scenario(_graph[1])

\* C10 as stated: every edge a returned community lists has both of its
\* endpoints among the community's nodes.
C10_EdgesInsideAsStated ==
    SchemaReturned =>
        \A c \in DOMAIN ret.schemas : \A e \in ret.schemas[c].edges :
            e[1] \in ret.schemas[c].nodes /\ e[2] \in ret.schemas[c].nodes

\* C10 as amended: every edge a returned community lists has at least one of
\* its endpoints among the community's nodes (it is an edge incident to a
\* member node; the other endpoint may lie outside the community).
C10_EdgesIncidentAmended ==
    SchemaReturned =>
        \A c \in DOMAIN ret.schemas : \A e \in ret.schemas[c].edges :
            e[1] \in ret.schemas[c].nodes \/ e[2] \in ret.schemas[c].nodes

\* A community has been returned that lists an edge to a node outside it,
\* in a graph that also has an edge touching none of its nodes.
C10_Witness ==
    /\ SchemaReturned
    /\ \E c \in DOMAIN ret.schemas :
          /\ \E e \in ret.schemas[c].edges :
                ~(e[1] \in ret.schemas[c].nodes /\ e[2] \in ret.schemas[c].nodes)
          /\ \E k \in DOMAIN _graph[1].edata : k \cap ret.schemas[c].nodes = {}

-----------------------------------------------------------------------------
(* stable_largest_connected_component                                      *)

\* str.upper(), on the letters a..z
upper(s) == [i \in 1..Len(s) |-> IF 97 <= s[i] /\ s[i] <= 122 THEN s[i] - 32 ELSE s[i]]

\* html.unescape(s): a string without '&' is returned as it is (the first
\* statement of the function); the ids of the model hold no '&'.
html_unescape(s) == s

\* An id that is trimmed and keeps its letter case.
node_mapping_keeping_case(node) == html_unescape(strip(node))

\* html.unescape(node.upper().strip())
node_mapping(node) == html_unescape(strip(upper(node)))

\* for u in adj: for v in adj[u]: (u, v, data): every edge from both ends.
RECURSIVE AdjItems(_, _)
AdjItems(G, i) ==
    IF i > Len(G.node) THEN <<>>
    ELSE LET u == G.node[i]
         IN  [k \in 1..Len(G.adj[u]) |-> <<u, G.adj[u][k], G.edata[EdgeKey(u, G.adj[u][k])]>>]
             \o AdjItems(G, i + 1)

\* Graph.copy(): a new graph, add_nodes_from over _node, then add_edges_from
\* over the adjacency.
copy(G) == add_edges_from(add_nodes_from(NxGraph, nodes_data(G)), AdjItems(G, 1))

\* The nodes reachable from those of S.
RECURSIVE Reach(_, _)
Reach(G, S) ==
    LET T == S \cup UNION {Range(G.adj[n]) : n \in S}
    IN  IF T = S THEN S ELSE Reach(G, T)

\* nx.connected_components(G): for each node in order that no earlier
\* component holds, the set of nodes reachable from it.
RECURSIVE ComponentsFrom(_, _, _)
ComponentsFrom(G, i, seen) ==
    IF i > Len(G.node) THEN <<>>
    ELSE IF G.node[i] \in seen THEN ComponentsFrom(G, i + 1, seen)
    ELSE LET c == Reach(G, {G.node[i]})
         IN  <<c>> \o ComponentsFrom(G, i + 1, seen \cup c)

connected_components(G) == ComponentsFrom(G, 1, {})

\* max(components, key=len): the first component of the largest size.
max_by_len(cs) ==
    cs[CHOOSE i \in 1..Len(cs) :
          /\ \A j \in 1..Len(cs) : Cardinality(cs[j]) <= Cardinality(cs[i])
          /\ \A j \in 1..(i - 1) : Cardinality(cs[j]) < Cardinality(cs[i])]

\* graph.subgraph(nodes): the view keeps the order of the graph (the component
\* holds at least half of the nodes of every graph of the model, so the view
\* iterates the graph's own node dict).
subgraph(G, S) ==
    [node  |-> SelectSeq(G.node, LAMBDA n : n \in S),
     data  |-> [n \in S |-> G.data[n]],
     adj   |-> [n \in S |-> SelectSeq(G.adj[n], LAMBDA m : m \in S)],
     edata |-> [e \in {k \in DOMAIN G.edata : k \subseteq S} |-> G.edata[e]]]

\* graspologic's largest_connected_component on an nx.Graph:
\* graph.subgraph(max(nx.connected_components(graph), key=len)).copy();
\* max raises ValueError on a graph without nodes.
largest_connected_component(G) ==
    IF G.node = <<>> THEN [raised |-> TRUE, graph |-> NxGraph]
    ELSE [raised |-> FALSE,
          graph  |-> copy(subgraph(G, max_by_len(connected_components(G))))]

\* H._node.update((mapping[n], d.copy()) for n, d in G.nodes.items()): the
\* bag of the node met last replaces the bag under the new id.
RECURSIVE NodeUpdate(_, _)
NodeUpdate(H, ns) ==
    IF ns = <<>> THEN H
    ELSE NodeUpdate([H EXCEPT !.data = [m \in DOMAIN H.data |->
                        IF m = node_mapping(Head(ns)[1]) THEN Head(ns)[2] ELSE H.data[m]]],
                    Tail(ns))

\* nx.relabel_nodes(graph, node_mapping) (copy=True): a new graph with the new
\* ids in the order the old ones are met, the bags, then the edges.
relabel_nodes(G) ==
    LET ns == nodes_data(G)
        es == edges_data(G)
        H0 == add_nodes_from(NxGraph,
                  [i \in 1..Len(ns) |-> <<node_mapping(ns[i][1]), EmptyBag>>])
        H1 == NodeUpdate(H0, ns)
    IN  add_edges_from(H1, [i \in 1..Len(es) |->
            <<node_mapping(es[i][1]), node_mapping(es[i][2]), es[i][3]>>])

\* stable_largest_connected_component(graph): what it returns, or that it
\* raised.
stable_largest_connected_component(graph) ==
    LET lcc == largest_connected_component(copy(graph))
    IN  IF lcc.raised THEN lcc
        ELSE [raised |-> FALSE, graph |-> _stabilize_graph(relabel_nodes(lcc.graph))]

\* A call that puts the graph it computed in the place of the stored one.
get_stable_largest_cc_in_place(self) ==
    /\ ret' = stable_largest_connected_component(_graph[self])
    /\ _graph' = [_graph EXCEPT ![self] = IF ret'.raised THEN @ ELSE ret'.graph]
    /\ last' = [last EXCEPT ![self] = Call("get_stable_largest_cc", FALSE)]
    /\ UNCHANGED <<file, chunk_vars, batch_vars, query_vars>>

get_stable_largest_cc(self) ==
    /\ ret' = stable_largest_connected_component(_graph[self])
    /\ last' = [last EXCEPT ![self] = Call("get_stable_largest_cc", FALSE)]
    /\ UNCHANGED <<_graph, file, chunk_vars, batch_vars, query_vars>>

-----------------------------------------------------------------------------
(* SpecCc: one graph store built by upserts, from which the stable largest *)
(* connected component is taken.                                           *)

\* "a", "A", "A ", "b", "c"
IdAsp == <<65, 32>>
Idb == <<98>>
Idc == <<99>>
CcIds == {Ida, IdA, IdAsp, Idb, Idc}

CcData(n) == [entity_name |-> n, source_id |-> <<"c1">>]

MaxCcNodes == 3    \* nodes the graph of SpecCc may hold

\* An entity is upserted with its record.
UpsertNodeCc(self) ==
    \E n \in CcIds :
        /\ ~has_node(_graph[self], n)
        /\ Len(_graph[self].node) < MaxCcNodes
        /\ upsert_node(self, n, CcData(n))

\* A relation between two entities the graph holds.
UpsertEdgeCc(self) ==
    \E u \in CcIds : \E v \in CcIds \ {u} : \E d \in EdgeDatas :
        /\ has_node(_graph[self], u) /\ has_node(_graph[self], v)
        /\ ~has_edge(_graph[self], u, v)
        /\ Fits(add_edge(_graph[self], u, v, d))
        /\ upsert_edge(self, u, v, d)

GetStableLargestCc(self) == get_stable_largest_cc(self)

NextCc ==
    \/ UpsertNodeCc(1)
    \/ UpsertEdgeCc(1)
    \/ GetStableLargestCc(1)

SpecCc == InitCanon /\ [][NextCc]_vars

\* get_stable_largest_cc ran last on store 1 and returned a graph.
CcReturned == last[1].op = "get_stable_largest_cc" /\ ~ret.raised

\* The orders in which n nodes can be inserted.
Perms(n) == {p \in [1..n -> 1..n] : \A i \in 1..n : \A j \in 1..n : i # j => p[i] # p[j]}

\* The graph of the same content as G, its nodes upserted in the order p and
\* then its edges.
Rebuilt(G, p) ==
    add_edges_from(add_nodes_from(NxGraph, [i \in 1..Len(G.node) |-> nodes_data(G)[p[i]]]),
                   edges_data(G))

\* The graph a -- b -- c (Alice, Bob, Carol).
PathContent(G) ==
    /\ Range(G.node) = {Ida, Idb, Idc}
    /\ DOMAIN G.edata = {EdgeKey(Ida, Idb), EdgeKey(Idb, Idc)}

\* C11: the graph stable_largest_connected_component returns is a largest
\* connected component with every id upper-cased and trimmed, its nodes in
\* ascending order, every edge listed smaller id first and the edges in the
\* order of their keys; it is the same for every insertion order of the same
\* content; and for a -- b -- c it has nodes A, B, C and edges (A, B), (B, C).
C11_StableLcc ==
    CcReturned =>
        LET G  == _graph[1]
            R  == ret.graph
            es == edges_data(R)
        IN  /\ \E i \in DOMAIN connected_components(G) :
                  /\ \A j \in DOMAIN connected_components(G) :
                        Cardinality(connected_components(G)[j])
                            <= Cardinality(connected_components(G)[i])
                  /\ Range(R.node) = {strip(upper(n)) : n \in connected_components(G)[i]}
            /\ \A i \in 1..Len(R.node) : \A j \in 1..Len(R.node) :
                  i < j => StrLess(R.node[i], R.node[j])
            /\ \A i \in 1..Len(es) : StrLeq(es[i][1], es[i][2])
            /\ \A i \in 1..Len(es) : \A j \in 1..Len(es) :
                  i < j => StrLeq(_get_edge_key(es[i][1], es[i][2]),
                                  _get_edge_key(es[j][1], es[j][2]))
            /\ \A p \in Perms(Len(G.node)) :
                  stable_largest_connected_component(Rebuilt(G, p)).graph = R
            /\ PathContent(G) =>
                  /\ R.node = <<IdA, IdB, <<67>>>>
                  /\ [i \in 1..Len(es) |-> <<es[i][1], es[i][2]>>]
                        = << <<IdA, IdB>>, <<IdB, <<67>>>> >>

-----------------------------------------------------------------------------
(* Claims on upsert_node / upsert_edge over what is there (under Spec)     *)

\* The bag new is the merge of the incoming bag into the bag old: what the
\* incoming bag lacks stays, its scalars win, its source_id is added to the
\* chunk ids there.
Merged(old, incoming, new) ==
    /\ DOMAIN new = (DOMAIN old) \cup (DOMAIN incoming)
    /\ \A k \in (DOMAIN old) \ (DOMAIN incoming) : new[k] = old[k]
    /\ \A k \in (DOMAIN incoming) \ {"source_id"} : new[k] = incoming[k]
    /\ "source_id" \in DOMAIN incoming =>
          Range(new.source_id) =
              Range(incoming.source_id)
                  \cup (IF "source_id" \in DOMAIN old THEN Range(old.source_id) ELSE {})

\* C12: every upsert_node on a node that exists and every upsert_edge on an
\* edge that exists leaves the merge of the incoming attributes into the
\* existing ones: absent attributes retained, incoming scalars taken, source_id
\* the union of the existing and the incoming chunk ids.
C12_UpsertMerges ==
    [][ /\ last'[1].op = "upsert_node" =>
            \A n \in NodeIds : \A d \in NodeDatas(n) :
                (has_node(_graph[1], n) /\ _graph'[1] = add_node(_graph[1], n, d))
                    => Merged(_graph[1].data[n], d, _graph'[1].data[n])
        /\ last'[1].op = "upsert_edge" =>
            \A u \in NodeIds : \A v \in NodeIds \ {u} : \A d \in EdgeDatas :
                (has_edge(_graph[1], u, v) /\ _graph'[1] = add_edge(_graph[1], u, v, d))
                    => Merged(_graph[1].edata[EdgeKey(u, v)], d,
                              _graph'[1].edata[EdgeKey(u, v)]) ]_vars

-----------------------------------------------------------------------------
(* Claims on the chunk ids (checked under SpecChunk)                       *)

\* The store holds every record under the id of its content, and no two
\* records under one id.
ContentAddressed(chunks) ==
    /\ \A j \in 1..Len(chunks) :
          chunks[j].key = mdhash_id(chunks[j].chunk.content, "chunk-")
    /\ \A j \in 1..Len(chunks) : \A k \in 1..Len(chunks) :
          /\ (j # k) => chunks[j].key # chunks[k].key
          /\ (chunks[j].chunk.content = chunks[k].chunk.content)
                <=> (chunks[j].key = chunks[k].key)

\* C13: every chunk build_chunks has upserted is in the store under
\* "chunk-" + digest(content); the store, in memory and persisted, holds one
\* record for an id whatever documents and runs the content came from, and
\* records of different content under different ids.
C13_ChunkIdsByContent ==
    /\ ContentAddressed(chunk_mem)
    /\ ContentAddressed(chunk_disk.chunks)
    /\ pc = "upsert" =>
          \A j \in 1..(build.i - 1) :
              \E m \in 1..Len(chunk_mem) :
                  /\ chunk_mem[m].key = mdhash_id(build.chunks[j].content, "chunk-")
                  /\ chunk_mem[m].chunk.content = build.chunks[j].content

\* The persisted store holds "b" once, after a pass over "bb" (the content
\* twice in one document) and a forced pass over " ab ", "bc" (the content in
\* two documents, and in a second run).
C13_Witness ==
    /\ pc = "idle"
    /\ Len(history) = 2
    /\ history[1].how = "ok" /\ history[1].docs = <<DocBB>>
    /\ history[2].how = "ok" /\ history[2].docs = <<DocABsp, DocBC>>
    /\ history[2].upserts = 4
    /\ Len(chunk_disk.chunks) = 3
    /\ chunk_disk.chunks[1].chunk.content = <<98>>

-----------------------------------------------------------------------------
(* Claims on the lists get_community_schema returns (under SpecSchema)     *)

\* The sequence s of strings is in ascending order of the keys.
Ascending(s) ==
    \A i \in 1..Len(s) : \A j \in 1..Len(s) : i < j => StrLess(s[i], s[j])

\* C14: the nodes, the edges and the chunk ids of every community are
\* returned as sorted sequences, and a graph of the same nodes, edges, labels
\* and source ids built in another insertion order yields the same output,
\* element order included.
C14_SortedLists ==
    SchemaReturned =>
        /\ \A c \in DOMAIN ret.listed :
              LET l == ret.listed[c]
              IN  /\ Ascending(l.nodes)
                  /\ Ascending([i \in 1..Len(l.edges) |->
                                   l.edges[i][1] \o <<0>> \o l.edges[i][2]])
                  /\ Ascending([i \in 1..Len(l.chunk_ids) |-> StrCodes(l.chunk_ids[i])])
        /\ \A p \in Perms(Len(_graph[1].node)) : \A set_order \in SetOrders :
              listed_schema(community_schema(Rebuilt(_graph[1], p)), set_order) = ret

-----------------------------------------------------------------------------
(* SpecRead: the store of SpecSchema, read by get_community_schema and by  *)
(* get_stable_largest_cc.                                                  *)

NextRead ==
    \/ NextSchema
    \/ GetStableLargestCc(1)

SpecRead == InitChunk /\ [][NextRead]_vars

\* C15: a call of get_community_schema or of get_stable_largest_cc leaves the
\* stored graph with the nodes, edges and attributes it had (and the file as it
\* was), and what get_community_schema returns is what the current nodes,
\* labels, source ids and edges give, whatever earlier calls returned.
C15_ReadOnly ==
    [][ last'[1].op \in {"get_community_schema", "get_stable_largest_cc"} =>
            /\ SameContent(_graph[1], _graph'[1])
            /\ _graph'[1].node = _graph[1].node
            /\ file' = file
            /\ last'[1].op = "get_community_schema" =>
                  LET r == community_schema(_graph'[1])
                  IN  ret'.error = r.error /\ ret'.schemas = r.schemas ]_vars

\* get_stable_largest_cc has returned a graph with fewer nodes than the
\* stored graph, which holds its labelled nodes and its edges as before.
C15_Witness ==
    /\ CcReturned
    /\ Len(ret.graph.node) < Len(_graph[1].node)
    /\ DOMAIN _graph[1].edata # {}
    /\ \E n \in Range(_graph[1].node) : "clusters" \in DOMAIN _graph[1].data[n]

-----------------------------------------------------------------------------
(* SpecAsync: persist and get_community_schema run as a task of the event  *)
(* loop while another task upserts.  The loop runs one task at a time and  *)
(* changes task only where the running coroutine is suspended.             *)

\* Every await counted as a point where the task is suspended.
suspension_points_per_await(op) ==
    CASE op = "persist" -> 1
      [] op = "get_community_schema" -> 0

\* The points of a call at which its task is suspended.  persist awaits the
\* coroutine _persist, which runs inside the same task and awaits nothing;
\* get_community_schema awaits nothing.
suspension_points(op) ==
    CASE op = "persist" -> 0
      [] op = "get_community_schema" -> 0

TaskOps == {"persist", "get_community_schema"}

\* The call is handed to the event loop; its body has not begun.
create_task(self, op, force) ==
    /\ inflight.state = "none"
    /\ inflight' = [op |-> op, force |-> force, state |-> "scheduled", start |-> None]
    /\ UNCHANGED <<graph_vars, chunk_vars, indices, tasks, order, outcome, query_vars>>

\* The event loop runs the task: the body runs to its next suspension point,
\* or to its end, where the call has its effect on the graph as it is then.
run_task(self) ==
    /\ inflight.state \in {"scheduled", "suspended"}
    /\ IF inflight.state = "scheduled" /\ suspension_points(inflight.op) > 0
       THEN /\ inflight' = [inflight EXCEPT !.state = "suspended", !.start = _graph[self]]
            /\ UNCHANGED graph_vars
       ELSE /\ inflight' = NoTask
            /\ last' = [last EXCEPT ![self] = Call(inflight.op, inflight.force)]
            /\ IF inflight.op = "persist"
               THEN /\ file' = [file EXCEPT
                                  ![self] = _persist(_graph[self], @, inflight.force)]
                    /\ ret' = None
               ELSE /\ \E set_order \in SetOrders :
                          ret' = listed_schema(community_schema(_graph[self]), set_order)
                    /\ UNCHANGED file
            /\ UNCHANGED _graph
    /\ UNCHANGED <<chunk_vars, indices, tasks, order, outcome, query_vars>>

\* "X" and "Y"
AsyncIds == {IdX, IdY}

\* What the other task does: entities, the relation, the cluster label.
TaskUpsertNode(self) ==
    \E n \in AsyncIds :
        /\ IF has_node(_graph[self], n)
           THEN "source_id" \notin DOMAIN _graph[self].data[n]
           ELSE TRUE
        /\ upsert_node(self, n, SchemaData(n))

TaskUpsertEdge(self) ==
    \E u \in AsyncIds : \E v \in AsyncIds \ {u} : \E d \in EdgeDatas :
        /\ ~has_edge(_graph[self], u, v)
        /\ Fits(add_edge(_graph[self], u, v, d))
        /\ upsert_edge(self, u, v, d)

TaskCluster(self) ==
    \E n \in AsyncIds :
        /\ has_node(_graph[self], n)
        /\ "source_id" \in DOMAIN _graph[self].data[n]
        /\ "clusters" \notin DOMAIN _graph[self].data[n]
        /\ cluster_data_to_subgraphs(self, n, <<Label(0, 1)>>)

CreateTask(self) == \E op \in TaskOps : \E force \in BOOLEAN : create_task(self, op, force)

RunTask(self) == run_task(self)

NextAsync ==
    \/ TaskUpsertNode(1)
    \/ TaskUpsertEdge(1)
    \/ TaskCluster(1)
    \/ CreateTask(1)
    \/ RunTask(1)

SpecAsync == InitChunk /\ [][NextAsync]_vars

\* C16: a persist or get_community_schema call is never suspended, and when
\* it ends the graph is the one its body found when it began: the file
\* persist leaves and the schema get_community_schema returns are those of
\* that graph, no upsert of the other task having taken effect in between.
C16_NoSuspension ==
    [][ /\ inflight'.state # "suspended"
        /\ (inflight.state # "none" /\ inflight'.state = "none") =>
              LET G0 == IF inflight.state = "suspended" THEN inflight.start ELSE _graph[1]
              IN  /\ _graph[1] = G0
                  /\ _graph'[1] = G0
                  /\ inflight.op = "persist" =>
                        file'[1] = _persist(G0, file[1], inflight.force)
                  /\ inflight.op = "get_community_schema" =>
                        /\ ret'.error = community_schema(G0).error
                        /\ ret'.schemas = community_schema(G0).schemas ]_vars

\* A persist has written the graph, the other task has upserted since, and a
\* get_community_schema task has then returned a community.
C16_Witness ==
    /\ inflight.state = "none"
    /\ file[1].state = "ok"
    /\ file[1].nodes # <<>>
    /\ file[1].nodes # nodes_data(_graph[1])
    /\ SchemaReturned
    /\ DOMAIN ret.schemas # {}

-----------------------------------------------------------------------------
(* SpecLevels: entities labelled over three levels, some of them absent.   *)

\* The cluster lists of a clustering with levels 0, 1 and 2.
LevelLists ==
    { <<Label(0, 1)>>,
      <<Label(0, 3)>>,
      <<Label(1, 2)>>,
      <<Label(2, 4)>>,
      <<Label(0, 1), Label(1, 2)>>,
      <<Label(0, 1), Label(2, 4)>>,
      <<Label(0, 1), Label(1, 2), Label(2, 4)>> }

ClusterLevels(self) ==
    \E n \in SchemaIds : \E cl \in LevelLists :
        /\ has_node(_graph[self], n)
        /\ cluster_data_to_subgraphs(self, n, cl)

GetCommunitySchema(self) == get_community_schema(self)

NextLevels ==
    \/ UpsertEntity(1)
    \/ ClusterLevels(1)
    \/ GetCommunitySchema(1)

SpecLevels == InitChunk /\ [][NextLevels]_vars

\* The levels above l among the returned communities.
LevelsAbove(schemas, l) == {schemas[c].level : c \in DOMAIN schemas} \cap {k \in 0..2 : k > l}

\* C17: every returned community A of a level that has a level above it among
\* the levels present has as sub_communities exactly the communities of the
\* next level present whose nodes are a subset of A.nodes; a community of the
\* last level has none; and with X in cluster 1 and Y in clusters 1 and 2,
\* community 1's sub_communities holds 2.
C17_SubCommunitiesExact ==
    SchemaReturned =>
        /\ \A A \in DOMAIN ret.schemas :
              LET above == LevelsAbove(ret.schemas, ret.schemas[A].level)
              IN  IF above = {}
                  THEN ret.schemas[A].sub_communities = {}
                  ELSE LET next == CHOOSE l \in above : \A k \in above : l <= k
                       IN  ret.schemas[A].sub_communities =
                               {B \in DOMAIN ret.schemas :
                                   /\ ret.schemas[B].level = next
                                   /\ ret.schemas[B].nodes \subseteq ret.schemas[A].nodes}
        /\ ( /\ Range(_graph[1].node) = {IdX, IdY}
             /\ "clusters" \in DOMAIN _graph[1].data[IdX]
             /\ "clusters" \in DOMAIN _graph[1].data[IdY]
             /\ _graph[1].data[IdX].clusters = <<Label(0, 1)>>
             /\ _graph[1].data[IdY].clusters = <<Label(0, 1), Label(1, 2)>> )
           => 2 \in ret.schemas[1].sub_communities

\* Levels 0 and 2 are present and level 1 is not; community 1 of level 0 has
\* two nodes and community 4 of level 2, which holds one of them, is its
\* sub-community, while community 3 of level 0 does not have it.
C17_Witness ==
    /\ SchemaReturned
    /\ DOMAIN ret.schemas = {1, 3, 4}
    /\ Cardinality(ret.schemas[1].nodes) = 2
    /\ ret.schemas[1].sub_communities = {4}
    /\ ret.schemas[3].sub_communities = {}
    /\ ret.schemas[4].sub_communities = {}

-----------------------------------------------------------------------------
(* Claim C18: ids that differ by case or surrounding whitespace collapse.  *)

\* The id without its surrounding whitespace and in lower case: two ids that
\* differ only by letter case or surrounding whitespace have the same fold.
fold(s) == LET t == strip(s)
           IN  [i \in 1..Len(t) |-> IF 65 <= t[i] /\ t[i] <= 90 THEN t[i] + 32 ELSE t[i]]

\* C18: the graph stable_largest_connected_component returns is made of a
\* largest connected component c of the stored graph in which two distinct
\* nodes whose ids differ only by letter case or surrounding whitespace are
\* one node, under one id: the result then has fewer nodes than c, and it
\* has as many nodes as c has ids up to case and surrounding whitespace.
C18_CaseCollapse ==
    CcReturned =>
        LET G  == _graph[1]
            R  == ret.graph
            cs == connected_components(G)
        IN  \E i \in DOMAIN cs :
               /\ \A j \in DOMAIN cs : Cardinality(cs[j]) <= Cardinality(cs[i])
               /\ Len(R.node) = Cardinality({fold(n) : n \in cs[i]})
               /\ \A n \in cs[i] : \A m \in cs[i] \ {n} :
                     fold(n) = fold(m) =>
                        /\ Len(R.node) < Cardinality(cs[i])
                        /\ Cardinality({k \in 1..Len(R.node) :
                               fold(R.node[k]) = fold(n)}) = 1
                        /\ \E k \in 1..Len(R.node) :
                               R.node[k] = strip(upper(n)) /\ R.node[k] = strip(upper(m))

\* The stored graph is a -- A -- b, one component of three nodes, and the
\* graph returned has the two nodes A and B.
C18_Witness ==
    /\ CcReturned
    /\ Range(_graph[1].node) = {Ida, IdA, Idb}
    /\ DOMAIN _graph[1].edata = {EdgeKey(Ida, IdA), EdgeKey(IdA, Idb)}
    /\ Len(ret.graph.node) = 2
    /\ Range(ret.graph.node) = {IdA, upper(Idb)}

-----------------------------------------------------------------------------
(* Claim C19: persist(force=False) after a load that failed on an          *)
(* unparsable file (checked under Spec).                                   *)

\* The file of store 1 is there and cannot be parsed, which is when
\* load_graph(force=False) returns False on an existing file, and the graph
\* has been built again by upserts.
RebuiltOverCorruptFile ==
    /\ file[1].state = "corrupt"
    /\ _graph[1].node # <<>>

\* C19: when the file exists and cannot be parsed, so that
\* load_graph(force=False) returns False, and the graph has been rebuilt by
\* upserts, persist(force=False) leaves the file holding the rebuilt graph,
\* from which a load_graph(force=False) returns True with that graph.
C19_PersistAfterFailedLoad ==
    [][ (RebuiltOverCorruptFile /\ last'[1] = Call("persist", FALSE))
            => /\ file'[1] = write_nx_graph(_graph[1])
               /\ load_nx_graph(NxGraph, file'[1])[2] = TRUE ]_vars

-----------------------------------------------------------------------------
(* _map_global_communities: the grouping of the community reports          *)

\* A report_string is held as its words, and the encoding has one token for
\* each of them; the code uses the number of tokens alone.
encode_string_by_tiktoken(content) == [i \in 1..Len(content) |-> <<"token", content[i]>>]

\* key=lambda x: x["report_string"]
report_key(x) == x.report_string

\* The for loop of truncate_list_by_token_size from position i on, with the
\* tokens counted and the result built so far.
RECURSIVE truncate_loop(_, _, _, _, _)
truncate_loop(list_data, max_token_size, i, tokens, result) ==
    IF i > Len(list_data) THEN result
    ELSE LET token_count == Len(encode_string_by_tiktoken(report_key(list_data[i])))
         IN  IF tokens + token_count > max_token_size THEN result
             ELSE truncate_loop(list_data, max_token_size, i + 1,
                                tokens + token_count, Append(result, list_data[i]))

truncate_list_by_token_size(list_data, max_token_size) ==
    IF max_token_size <= 0 THEN <<>>
    ELSE truncate_loop(list_data, max_token_size, 1, 0, <<>>)

MaxReports == 3    \* community reports handed to _map_global_communities
MaxRounds == 4     \* rounds of the grouping loop that are followed

\* The report strings, of zero, one and two tokens.
ReportStrings == { <<>>, <<"w">>, <<"w", "w">> }

\* The lists of community reports; a report carries its community id.
ReportLists ==
    UNION { { [i \in 1..n |-> [id |-> i, report_string |-> s[i]]] :
                s \in [1..n -> ReportStrings] } : n \in 0..MaxReports }

\* config.global_max_token_for_community_report
TokenBudgets == {0, 1, 2}

\* _map_global_communities is called.
MapGlobalCommunities ==
    \E data \in ReportLists : \E budget \in TokenBudgets :
        /\ map_call.pc = "idle"
        /\ map_call' = [pc |-> "loop", communities_data |-> data, max_token_size |-> budget]
        /\ communities_data' = data
        /\ community_groups' = <<>>
        /\ UNCHANGED <<graph_vars, chunk_vars, batch_vars>>

\* One round of the while loop.
GroupRound ==
    /\ map_call.pc = "loop"
    /\ Len(communities_data) # 0
    /\ Len(community_groups) < MaxRounds
    /\ LET this_group == truncate_list_by_token_size(communities_data, map_call.max_token_size)
       IN  /\ community_groups' = Append(community_groups, this_group)
           /\ communities_data' = SubSeq(communities_data, Len(this_group) + 1,
                                         Len(communities_data))
    /\ UNCHANGED <<map_call, graph_vars, chunk_vars, batch_vars>>

\* The while condition is false: the loop is left.
GroupsDone ==
    /\ map_call.pc = "loop"
    /\ Len(communities_data) = 0
    /\ map_call' = [map_call EXCEPT !.pc = "grouped"]
    /\ UNCHANGED <<communities_data, community_groups, graph_vars, chunk_vars, batch_vars>>

NextQuery ==
    \/ MapGlobalCommunities
    \/ GroupRound
    \/ GroupsDone

SpecQuery == InitChunk /\ [][NextQuery]_vars

\* The reports of a list of groups, in order.
RECURSIVE Concat(_)
Concat(groups) == IF groups = <<>> THEN <<>> ELSE Head(groups) \o Concat(Tail(groups))

\* The tokens of a group's reports.
RECURSIVE GroupTokens(_)
GroupTokens(g) ==
    IF g = <<>> THEN 0
    ELSE Len(encode_string_by_tiktoken(report_key(Head(g)))) + GroupTokens(Tail(g))

\* C20: while and after the grouping loop runs, the groups formed are
\* non-empty, they are consecutive slices of the input (with the reports
\* still to be grouped they make up the input list), each is within the
\* token budget, and the loop has run at most one round for each report, so
\* that it ends.
C20_GroupingTerminates ==
    map_call.pc # "idle" =>
        /\ \A k \in 1..Len(community_groups) : community_groups[k] # <<>>
        /\ Concat(community_groups) \o communities_data = map_call.communities_data
        /\ \A k \in 1..Len(community_groups) :
              GroupTokens(community_groups[k]) <= map_call.max_token_size
        /\ Len(community_groups) <= Len(map_call.communities_data)

-----------------------------------------------------------------------------
(* get_nodes, get_edges, get_node_metadata: the graph read API             *)

\* dict.get(key, default)
dict_get(d, key, default) == IF key \in DOMAIN d THEN d[key] ELSE default

\* The for loop of get_nodes over node_list from position i on.  get_node
\* hands out the graph's own attribute dict, so node_data["content"] = ...
\* is an assignment in the stored graph; a missing entity_name raises
\* KeyError with the earlier nodes already assigned.
RECURSIVE get_nodes_loop(_, _, _, _)
get_nodes_loop(G, node_list, i, nodes) ==
    IF i > Len(node_list) THEN [raised |-> FALSE, graph |-> G, value |-> nodes]
    ELSE LET node_id   == node_list[i]
             node_data == G.data[node_id]
         IN  IF "entity_name" \notin DOMAIN node_data
             THEN [raised |-> TRUE, graph |-> G, value |-> <<>>]
             ELSE LET content ==
                          IF dict_get(node_data, "description", <<>>) = <<>>
                          THEN node_data.entity_name
                          ELSE node_data.entity_name \o <<58, 32>> \o node_data.description
                      G1 == [G EXCEPT !.data[node_id] =
                                DictUpdate(node_data, [content |-> content])]
                  IN  get_nodes_loop(G1, node_list, i + 1, Append(nodes, G1.data[node_id]))

\* The for loop of get_edges over edge_list from position i on; get_edge
\* hands out the graph's own edge dict.
RECURSIVE get_edges_loop(_, _, _, _)
get_edges_loop(G, edge_list, i, edges) ==
    IF i > Len(edge_list) THEN [raised |-> FALSE, graph |-> G, value |-> edges]
    ELSE LET e         == EdgeKey(edge_list[i][1], edge_list[i][2])
             edge_data == G.edata[e]
             fail      == [raised |-> TRUE, graph |-> G, value |-> <<>>]
             with(c)   == [G EXCEPT !.edata[e] = DictUpdate(edge_data, [content |-> c])]
         IN  IF dict_get(edge_data, "description", <<>>) = <<>>
             THEN IF "relation_name" \notin DOMAIN edge_data THEN fail
                  ELSE get_edges_loop(with(edge_data.relation_name), edge_list, i + 1,
                           Append(edges, with(edge_data.relation_name).edata[e]))
             ELSE IF dict_get(edge_data, "keywords", <<>>) # <<>>
             THEN IF ~({"src_id", "tgt_id"} \subseteq DOMAIN edge_data) THEN fail
                  ELSE LET c == edge_data.keywords \o <<32>> \o edge_data.src_id \o <<32>>
                                \o edge_data.tgt_id \o <<32>> \o edge_data.description
                       IN  get_edges_loop(with(c), edge_list, i + 1,
                                          Append(edges, with(c).edata[e]))
             ELSE get_edges_loop(G, edge_list, i + 1, Append(edges, edge_data))

get_nodes(self) ==
    LET r == get_nodes_loop(_graph[self], _graph[self].node, 1, <<>>)
    IN  /\ _graph' = [_graph EXCEPT ![self] = r.graph]
        /\ ret' = [raised |-> r.raised, value |-> r.value]
        /\ last' = [last EXCEPT ![self] = Call("get_nodes", FALSE)]
        /\ UNCHANGED <<file, chunk_vars, batch_vars, query_vars>>

get_edges(self) ==
    LET r == get_edges_loop(_graph[self], edges_data(_graph[self]), 1, <<>>)
    IN  /\ _graph' = [_graph EXCEPT ![self] = r.graph]
        /\ ret' = [raised |-> r.raised, value |-> r.value]
        /\ last' = [last EXCEPT ![self] = Call("get_edges", FALSE)]
        /\ UNCHANGED <<file, chunk_vars, batch_vars, query_vars>>

\* {"entity_name": node["entity_name"] for node in await self.get_nodes()}:
\* one key, which the last node keeps.
get_node_metadata(self) ==
    LET r == get_nodes_loop(_graph[self], _graph[self].node, 1, <<>>)
    IN  /\ _graph' = [_graph EXCEPT ![self] = r.graph]
        /\ ret' = [raised |-> r.raised,
                   value  |-> IF r.raised \/ r.value = <<>> THEN EmptyBag
                              ELSE [entity_name |-> r.value[Len(r.value)].entity_name]]
        /\ last' = [last EXCEPT ![self] = Call("get_node_metadata", FALSE)]
        /\ UNCHANGED <<file, chunk_vars, batch_vars, query_vars>>

-----------------------------------------------------------------------------
(* SpecApi: one graph store built by upserts and read through the read API *)

ApiIds == {IdA, IdB}

\* The entity records: without a description and with one ("d").
ApiNodeDatas(n) ==
    { [entity_name |-> n, description |-> <<>>],
      [entity_name |-> n, description |-> <<100>>] }

\* The relation records: a name alone ("r"), keywords ("k") with the
\* endpoints and a description, and a weight alone.
ApiEdgeDatas(u, v) ==
    { [relation_name |-> <<114>>],
      [keywords |-> <<107>>, src_id |-> u, tgt_id |-> v, description |-> <<100>>],
      [weight |-> 1] }

\* An entity the graph does not hold is upserted.
UpsertNodeApi(self) ==
    \E n \in ApiIds : \E d \in ApiNodeDatas(n) :
        /\ ~has_node(_graph[self], n)
        /\ upsert_node(self, n, d)

\* A relation the graph does not hold is upserted; an endpoint the graph
\* does not hold enters it without attributes.
UpsertEdgeApi(self) ==
    \E u \in ApiIds : \E v \in ApiIds \ {u} : \E d \in ApiEdgeDatas(u, v) :
        /\ ~has_edge(_graph[self], u, v)
        /\ upsert_edge(self, u, v, d)

NextApi ==
    \/ UpsertNodeApi(1)
    \/ UpsertEdgeApi(1)
    \/ get_nodes(1)
    \/ get_edges(1)
    \/ get_node_metadata(1)

SpecApi == InitChunk /\ [][NextApi]_vars

\* C21: a call of get_nodes, get_edges or get_node_metadata leaves every
\* node's and every edge's attribute bag in the stored graph as it was, so
\* that a persist after the call writes what it would have written before it.
C21_ReadApiReadOnly ==
    [][ last'[1].op \in {"get_nodes", "get_edges", "get_node_metadata"}
            => /\ _graph'[1].data = _graph[1].data
               /\ _graph'[1].edata = _graph[1].edata
               /\ write_nx_graph(_graph'[1]) = write_nx_graph(_graph[1]) ]_vars

=============================================================================
